---- MODULE Spec2Model ----
(***************************************************************************)
(* Model of the direct-access data source of fuse-overlayfs (direct.c):    *)
(* layer load/cleanup, the stat entry points with the statx -> stat        *)
(* fallback, the override_stat extended attribute (decode + apply), the    *)
(* descriptor discipline of the xattr/stat/opendir operations and the      *)
(* EINTR retry loops of opendir/openat/readlinkat.                         *)
(***************************************************************************)
EXTENDS Integers, Sequences, FiniteSets, TLC

VARIABLES
  haveStatx,   \* build configuration: HAVE_STATX defined
  rootx,       \* xattrs of the layer root directory: name -> text or Absent
  fsx,         \* xattrs of the entries below the root: <<entry, name>> -> text or Absent
  layer,       \* struct ovl_layer: path, fd, has_stat_override, has_privileged_stat_override
  lstate,      \* lifecycle of the layer: "fresh", "loaded", "failed", "cleaned"
  heap,        \* strings allocated by realpath() and not yet freed
  fds,         \* process descriptor table: open fd -> [entry, owner]
  call,        \* the TEMP_FAILURE_RETRY call in progress, or Idle
  intrLeft,    \* interruptions that may still hit a blocking call
  last,        \* what the last finished operation returned to its caller
  aSt,         \* override-apply harness: the stat result being overridden
  aRec,        \* override-apply harness: the override record
  aFirst,      \* override-apply harness: the result of the first application
  aCount       \* override-apply harness: number of applications so far

vars == <<haveStatx, rootx, fsx, layer, lstate, heap, fds, call, intrLeft, last,
          aSt, aRec, aFirst, aCount>>

----------------------------------------------------------------------------
(* Bounds of the model *)

MaxFds == 1      \* descriptors the caller may hold open at once (files + streams)
MaxIntr == 1     \* interruptions delivered before they stop
MaxApply == 2    \* applications of one override record in the apply harness

----------------------------------------------------------------------------
(* Program constants *)

\* The value of a C octal literal, given by its digits.
RECURSIVE Octal(_)
Octal(ds) == IF ds = <<>> THEN 0 ELSE 8 * Octal(SubSeq(ds, 1, Len(ds) - 1)) + ds[Len(ds)]

S_IFMT == Octal(<<1, 7, 0, 0, 0, 0>>)
S_IFDIR == Octal(<<4, 0, 0, 0, 0>>)
S_IFREG == Octal(<<1, 0, 0, 0, 0, 0>>)
S_IFLNK == Octal(<<1, 2, 0, 0, 0, 0>>)
BufSize == 64        \* char buf[64] in override_mode
TmpSize == 64        \* char tmp[64] in direct_load_data_source
FirstFd == 3         \* lowest descriptor the process can be handed (0..2 are stdio)

XATTR_OVERRIDE_STAT == "user.fuseoverlayfs.override_stat"
XATTR_PRIVILEGED_OVERRIDE_STAT == "security.fuseoverlayfs.override_stat"
Names == {XATTR_OVERRIDE_STAT, XATTR_PRIVILEGED_OVERRIDE_STAT}

Absent == <<"<absent>">>
NULL == "NULL"
Idle == [op |-> "idle", path |-> "", flags |-> "", tries |-> 0]

----------------------------------------------------------------------------
(* Bit operations on naturals *)

RECURSIVE BitAnd(_, _)
BitAnd(a, b) ==
  IF a = 0 \/ b = 0 THEN 0
  ELSE (a % 2) * (b % 2) + 2 * BitAnd(a \div 2, b \div 2)

RECURSIVE BitOr(_, _)
BitOr(a, b) ==
  IF a = 0 THEN b
  ELSE IF b = 0 THEN a
  ELSE (IF a % 2 = 1 \/ b % 2 = 1 THEN 1 ELSE 0) + 2 * BitOr(a \div 2, b \div 2)

----------------------------------------------------------------------------
(* sscanf (buf, "%d:%d:%o", &uid, &gid, &mode) *)

DigitVal(c) ==
  CASE c = "0" -> 0 [] c = "1" -> 1 [] c = "2" -> 2 [] c = "3" -> 3
    [] c = "4" -> 4 [] c = "5" -> 5 [] c = "6" -> 6 [] c = "7" -> 7
    [] c = "8" -> 8 [] c = "9" -> 9 [] OTHER -> 99

IsDigit(c, base) == DigitVal(c) < base

RECURSIVE SkipWs(_, _)
SkipWs(s, i) ==
  IF i <= Len(s) /\ s[i] = " " THEN SkipWs(s, i + 1) ELSE i

RECURSIVE ScanDigits(_, _, _, _)
ScanDigits(s, i, base, acc) ==
  IF i <= Len(s) /\ IsDigit(s[i], base)
  THEN ScanDigits(s, i + 1, base, acc * base + DigitVal(s[i]))
  ELSE [val |-> acc, next |-> i]

\* One numeric conversion (%d with base 10, %o with base 8) starting at s[i]:
\* leading white space is skipped, a sign is accepted, at least one digit is
\* needed.  The value is the int the conversion stores (a negative one keeps
\* its sign here; the texts of the model stay far below 2^31).
ScanNumber(s, i, base) ==
  LET j == SkipWs(s, i) IN
  IF j > Len(s) THEN [status |-> "eof", val |-> 0, next |-> j]
  ELSE
    LET signed == s[j] \in {"+", "-"}
        k == IF signed THEN j + 1 ELSE j
    IN IF k > Len(s) \/ ~IsDigit(s[k], base)
       THEN [status |-> "mismatch", val |-> 0, next |-> k]
       ELSE LET d == ScanDigits(s, k, base, 0)
                v == IF s[j] = "-" THEN 0 - d.val ELSE d.val
            IN [status |-> "ok", val |-> v, next |-> d.next]

\* The literal ':' of the format: matches exactly one ':' of the input.
MatchColon(s, i) == i <= Len(s) /\ s[i] = ":"

\* The whole sscanf call: count is its return value (EOF = -1), uid/gid/mode
\* the objects it assigned.  Input left after the third conversion is ignored.
sscanf(s) ==
  LET n1 == ScanNumber(s, 1, 10)
      none == [count |-> 0, uid |-> 0, gid |-> 0, mode |-> 0]
  IN
  IF n1.status = "eof" THEN [none EXCEPT !.count = -1]
  ELSE IF n1.status # "ok" THEN none
  ELSE IF ~MatchColon(s, n1.next) THEN [none EXCEPT !.count = 1, !.uid = n1.val]
  ELSE
    LET n2 == ScanNumber(s, n1.next + 1, 10) IN
    IF n2.status # "ok" THEN [none EXCEPT !.count = 1, !.uid = n1.val]
    ELSE IF ~MatchColon(s, n2.next)
    THEN [none EXCEPT !.count = 2, !.uid = n1.val, !.gid = n2.val]
    ELSE
      LET n3 == ScanNumber(s, n2.next + 1, 8) IN
      IF n3.status # "ok"
      THEN [none EXCEPT !.count = 2, !.uid = n1.val, !.gid = n2.val]
      ELSE [count |-> 3, uid |-> n1.val, gid |-> n2.val, mode |-> n3.val]

----------------------------------------------------------------------------
(* Applying an override record to a stat result (override_mode, lines 132-134) *)

\* Variant: the record's mode added to the type bits instead of or-ed in.
ApplyOverrideSum(rec, st) ==
  [st EXCEPT !.st_uid = rec.uid,
             !.st_gid = rec.gid,
             !.st_mode = BitAnd(st.st_mode, S_IFMT) + rec.mode]

\* st->st_uid = uid; st->st_gid = gid; st->st_mode = (st->st_mode & S_IFMT) | mode;
ApplyOverride(rec, st) ==
  [st EXCEPT !.st_uid = rec.uid,
             !.st_gid = rec.gid,
             !.st_mode = BitOr(BitAnd(st.st_mode, S_IFMT), rec.mode)]

----------------------------------------------------------------------------
(* The storage below the layer root, as the kernel presents it *)

Entries == {"d", "f", "l", "x"}    \* a directory, a regular file, a symlink to f, no entry
RootEntry == "."

Kind(e) ==
  CASE e = RootEntry -> "dir"
    [] e = "d" -> "dir"
    [] e = "f" -> "reg"
    [] e = "l" -> "lnk"
    [] OTHER -> "none"

LinkTarget(e) == IF e = "l" THEN "f" ELSE e

\* The entry a path names, following a trailing symlink unless nofollow.
Resolve(e, nofollow) == IF Kind(e) = "lnk" /\ ~nofollow THEN LinkTarget(e) ELSE e

NoStat == [st_mode |-> -1, st_uid |-> -1, st_gid |-> -1, st_ino |-> -1]

\* What the kernel reports for an entry (struct stat of fstat/fstatat).
PhysStat(e) ==
  CASE Kind(e) = "dir" -> [st_mode |-> S_IFDIR + Octal(<<7, 5, 5>>), st_uid |-> 0, st_gid |-> 0, st_ino |-> 11]
    [] Kind(e) = "reg" -> [st_mode |-> S_IFREG + Octal(<<6, 4, 4>>), st_uid |-> 1000, st_gid |-> 100, st_ino |-> 12]
    [] Kind(e) = "lnk" -> [st_mode |-> S_IFLNK + Octal(<<7, 7, 7>>), st_uid |-> 1000, st_gid |-> 100, st_ino |-> 13]
    [] OTHER -> NoStat

\* The same entry as struct statx reports it.
PhysStatx(e) ==
  LET s == PhysStat(e) IN
  [stx_mode |-> s.st_mode, stx_uid |-> s.st_uid, stx_gid |-> s.st_gid, stx_ino |-> s.st_ino]

\* statx_to_stat (utils.c): copies the statx fields into a struct stat.
statx_to_stat(stx) ==
  [st_mode |-> stx.stx_mode, st_uid |-> stx.stx_uid, st_gid |-> stx.stx_gid,
   st_ino |-> stx.stx_ino]

T_ok == <<"1", "0", ":", "2", "0", ":", "7", "5", "5">>          \* 10:20:0755
T_type == <<"1", ":", "2", ":", "4", "0", "6", "4", "4">>        \* mode 040644: S_IFDIR bit set
T_bad == <<"b", "a", "d">>
T_two == <<"1", ":", "2">>
T_trail == <<"1", ":", "2", ":", "7", "5", "5", "x">>
T_empty == <<>>

\* All texts are shorter than the 63 bytes override_mode reads and the 64
\* bytes the load probes read, so no read of them ends in ERANGE.
XTexts == {T_ok, T_type, T_bad, T_two, T_trail, T_empty}
XChoice == XTexts \cup {Absent}

XattrOf(e, name) == IF e = RootEntry THEN rootx[name] ELSE fsx[<<e, name>>]

\* fgetxattr / lgetxattr into a buffer of `size` bytes.
Getxattr(value, size) ==
  IF value = Absent THEN [ret |-> -1, errno |-> "ENODATA", buf |-> <<>>]
  ELSE IF Len(value) > size THEN [ret |-> -1, errno |-> "ERANGE", buf |-> <<>>]
  ELSE [ret |-> Len(value), errno |-> "", buf |-> value]

----------------------------------------------------------------------------
(* The descriptor table *)

OpenFds == DOMAIN fds

RECURSIVE LowestFree(_, _)
LowestFree(tbl, n) == IF n \in DOMAIN tbl THEN LowestFree(tbl, n + 1) ELSE n

FdOpen(tbl, e, owner) ==
  LET fd == LowestFree(tbl, FirstFd) IN
  [fd |-> fd,
   tbl |-> [f \in DOMAIN tbl \cup {fd} |-> IF f = fd THEN [entry |-> e, owner |-> owner] ELSE tbl[f]]]

FdClose(tbl, fd) == [f \in DOMAIN tbl \ {fd} |-> tbl[f]]

\* Variant: a plain int, nothing closed at return.
cleanup_close_leak(tbl, fd) == tbl

\* The cleanup_close attribute: the variable's descriptor is closed when the
\* function returns, on every path, unless it holds a negative value.
cleanup_close(tbl, fd) == IF fd >= 0 THEN FdClose(tbl, fd) ELSE tbl

Held == {f \in OpenFds : fds[f].owner \in {"caller", "stream"}}

\* open_fd_or_get_path (utils.c): a descriptor opened O_NOFOLLOW relative to
\* the layer root, or, for an entry that cannot be opened that way, the
\* absolute path and no descriptor; both are success.
open_fd_or_get_path(l, tbl, path) ==
  IF Kind(path) = "none"
  THEN [ret |-> -1, errno |-> "ENOENT", fd |-> -1, full_path |-> <<>>, tbl |-> tbl]
  ELSE IF Kind(path) = "lnk"
  THEN [ret |-> 0, errno |-> "", fd |-> -1, full_path |-> <<l.path, "/", path>>, tbl |-> tbl]
  ELSE LET o == FdOpen(tbl, path, "core") IN
       [ret |-> o.fd, errno |-> "", fd |-> o.fd, full_path |-> <<>>, tbl |-> o.tbl]

----------------------------------------------------------------------------
(* override_mode *)

NoRec == [count |-> 0, uid |-> 0, gid |-> 0, mode |-> 0]

NoOverride(tbl, st) ==
  [ret |-> 0, errno |-> "", st |-> st, tbl |-> tbl, xname |-> "", xentry |-> "",
   tmpfd |-> -1, looked |-> FALSE, applied |-> FALSE, rec |-> NoRec]

\* xattr_name = l->has_privileged_stat_override ? PRIVILEGED : unprivileged
XattrName(l) ==
  IF l.has_privileged_stat_override # 0
  THEN XATTR_PRIVILEGED_OVERRIDE_STAT
  ELSE XATTR_OVERRIDE_STAT

override_mode(l, tbl, fd, path, st) ==
  IF l.has_stat_override = 0 /\ l.has_privileged_stat_override = 0
  THEN NoOverride(tbl, st)
  ELSE
    LET xattr_name == XattrName(l)
        \* the else branch of "if (fd >= 0)": resolve the path to a descriptor or a path
        o == IF fd >= 0
             THEN [ret |-> fd, errno |-> "", fd |-> fd, full_path |-> <<>>, tbl |-> tbl]
             ELSE open_fd_or_get_path(l, tbl, path)
        cleanup_fd == IF fd >= 0 THEN -1 ELSE o.fd
        xentry == IF o.fd >= 0 THEN o.tbl[o.fd].entry ELSE path
        base == [NoOverride(cleanup_close(o.tbl, cleanup_fd), st) EXCEPT
                   !.xname = xattr_name, !.tmpfd = cleanup_fd]
    IN
    IF o.ret < 0 THEN [base EXCEPT !.ret = o.ret, !.errno = o.errno]
    ELSE
      LET g == Getxattr(XattrOf(xentry, xattr_name), BufSize - 1) IN
      IF g.ret < 0
      THEN [base EXCEPT !.ret = g.ret, !.errno = g.errno, !.xentry = xentry, !.looked = TRUE]
      ELSE
        LET p == sscanf(g.buf) IN
        IF p.count # 3
        THEN [base EXCEPT !.ret = -1, !.errno = "EINVAL", !.xentry = xentry,
                          !.looked = TRUE, !.rec = p]
        ELSE [base EXCEPT !.st = ApplyOverride(p, st), !.xentry = xentry,
                          !.looked = TRUE, !.applied = TRUE, !.rec = p]

----------------------------------------------------------------------------
(* The metadata queries of the kernel *)

\* What the kernel answers to the rich query and, where it is run, to the
\* conventional one.
QueryOutcomes == {<<"ok", "ok">>, <<"EIO", "ok">>, <<"ENOSYS", "ok">>, <<"ENOSYS", "EIO">>}

\* statx(2) on entry e: a kernel without the call answers ENOSYS whatever the
\* target; otherwise a missing entry is ENOENT and storage may fail with EIO.
statx(e, out) ==
  IF out = "ENOSYS" THEN [ret |-> -1, errno |-> "ENOSYS", stx |-> PhysStatx("x")]
  ELSE IF Kind(e) = "none" THEN [ret |-> -1, errno |-> "ENOENT", stx |-> PhysStatx("x")]
  ELSE IF out = "EIO" THEN [ret |-> -1, errno |-> "EIO", stx |-> PhysStatx("x")]
  ELSE [ret |-> 0, errno |-> "", stx |-> PhysStatx(e)]

\* fstat(2) / fstatat(2) on entry e.
Stat(e, out) ==
  IF Kind(e) = "none" THEN [ret |-> -1, errno |-> "ENOENT", st |-> NoStat]
  ELSE IF out = "EIO" THEN [ret |-> -1, errno |-> "EIO", st |-> NoStat]
  ELSE [ret |-> 0, errno |-> "", st |-> PhysStat(e)]

BaseLast(op, path) ==
  [op |-> op, path |-> path, ret |-> 0, errno |-> "", st |-> NoStat, raw |-> NoStat,
   steps |-> <<>>, richErrno |-> "", xname |-> "", xentry |-> "", tmpfd |-> -1,
   looked |-> FALSE, applied |-> FALSE, rec |-> NoRec, fd |-> -1, target |-> "",
   tries |-> 0]

\* The result of a stat entry point that ends in
\* "return override_mode (l, fd, path, st)": o is what override_mode did to
\* the raw result st of the metadata query.
Overridden(base, st, steps, o) ==
  [res |-> [base EXCEPT !.ret = o.ret, !.errno = o.errno, !.st = o.st, !.raw = st,
                        !.steps = steps \o <<"override_mode">>, !.xname = o.xname,
                        !.xentry = o.xentry, !.tmpfd = o.tmpfd, !.looked = o.looked,
                        !.applied = o.applied, !.rec = o.rec],
   tbl |-> o.tbl]

WithOverride(base, l, tbl, fd, path, st, steps) ==
  Overridden(base, st, steps, override_mode(l, tbl, fd, path, st))

\* The code after the "fallback:" label, f being the result of fstat/fstatat.
FallbackWith(base, l, tbl, fd, path, steps, f) ==
  IF f.ret # 0
  THEN [res |-> [base EXCEPT !.ret = f.ret, !.errno = f.errno, !.steps = steps],
        tbl |-> tbl]
  ELSE WithOverride(base, l, tbl, fd, path, f.st, steps)

Fallback(base, l, tbl, e, fd, path, fb, steps) ==
  FallbackWith(base, l, tbl, fd, path, steps, Stat(e, fb))

\* Variant: no "goto fallback", ENOSYS returned like any other error.
RichWithNoFallback(base, l, tbl, e, fd, path, fb, rich, plain, r) ==
  IF r.ret = 0
  THEN WithOverride(base, l, tbl, fd, path, statx_to_stat(r.stx), <<rich>>)
  ELSE [res |-> [base EXCEPT !.ret = r.ret, !.errno = r.errno, !.steps = <<rich>>],
        tbl |-> tbl]

\* The code under HAVE_STATX, r being the result of statx.
RichWith(base, l, tbl, e, fd, path, fb, rich, plain, r) ==
  IF r.ret < 0 /\ r.errno = "ENOSYS"
  THEN Fallback(base, l, tbl, e, fd, path, fb, <<rich, plain>>)
  ELSE IF r.ret = 0
  THEN WithOverride(base, l, tbl, fd, path, statx_to_stat(r.stx), <<rich>>)
  ELSE [res |-> [base EXCEPT !.ret = r.ret, !.errno = r.errno, !.steps = <<rich>>],
        tbl |-> tbl]

Rich(base, l, tbl, e, fd, path, sx, fb, rich, plain, r) ==
  RichWith([base EXCEPT !.richErrno = r.errno], l, tbl, e, fd, path, fb, rich, plain, r)

\* The body shared in shape by direct_fstat and direct_statat: e is the entry
\* the query reaches, fd the descriptor handed to override_mode (-1 for statat).
TieredStat(base, have, l, tbl, e, fd, path, sx, fb, rich, plain) ==
  IF have
  THEN Rich(base, l, tbl, e, fd, path, sx, fb, rich, plain, statx(e, sx))
  ELSE Fallback(base, l, tbl, e, fd, path, fb, <<plain>>)

direct_fstat(have, l, tbl, fd, path, sx, fb) ==
  TieredStat([BaseLast("fstat", path) EXCEPT !.fd = fd, !.target = tbl[fd].entry],
             have, l, tbl, tbl[fd].entry, fd, path, sx, fb, "statx", "fstat")

direct_statat(have, l, tbl, path, nofollow, sx, fb) ==
  TieredStat([BaseLast("statat", path) EXCEPT !.target = Resolve(path, nofollow)],
             have, l, tbl, Resolve(path, nofollow), -1, path, sx, fb, "statx", "fstatat")

----------------------------------------------------------------------------
(* Layer lifecycle *)

LoadPaths == {"/lower", "/alias", "/file", "/nope"}

\* realpath(3): /alias is a symlink to the directory /lower, /nope does not exist.
realpath(p) ==
  CASE p = "/lower" -> "/lower"
    [] p = "/alias" -> "/lower"
    [] p = "/file" -> "/file"
    [] OTHER -> NULL

\* open (path, O_DIRECTORY): out is what the kernel answers for a directory.
OpenRoot(tbl, p, out) ==
  IF realpath(p) = NULL THEN [fd |-> -1, errno |-> "ENOENT", tbl |-> tbl]
  ELSE IF realpath(p) = "/file" THEN [fd |-> -1, errno |-> "ENOTDIR", tbl |-> tbl]
  ELSE IF out # "ok" THEN [fd |-> -1, errno |-> out, tbl |-> tbl]
  ELSE LET o == FdOpen(tbl, RootEntry, "layer") IN
       [fd |-> o.fd, errno |-> "", tbl |-> o.tbl]

\* struct ovl_layer as the caller hands it to load_data_source: zero-filled.
FreshLayer ==
  [path |-> NULL, fd |-> 0, has_stat_override |-> 0, has_privileged_stat_override |-> 0]

\* Variant: the unprivileged attribute probed first.
ProbeUserFirst(l, rx) ==
  IF Getxattr(rx[XATTR_OVERRIDE_STAT], TmpSize).ret >= 0
  THEN [layer |-> [l EXCEPT !.has_stat_override = 1], probes |-> <<XATTR_OVERRIDE_STAT>>]
  ELSE IF Getxattr(rx[XATTR_PRIVILEGED_OVERRIDE_STAT], TmpSize).ret >= 0
  THEN [layer |-> [l EXCEPT !.has_privileged_stat_override = 1],
        probes |-> <<XATTR_OVERRIDE_STAT, XATTR_PRIVILEGED_OVERRIDE_STAT>>]
  ELSE [layer |-> l, probes |-> <<XATTR_OVERRIDE_STAT, XATTR_PRIVILEGED_OVERRIDE_STAT>>]

\* The two probes of direct_load_data_source (lines 257-260): the privileged
\* attribute first, the unprivileged one only if that fgetxattr fails.
Probe(l, rx) ==
  IF Getxattr(rx[XATTR_PRIVILEGED_OVERRIDE_STAT], TmpSize).ret >= 0
  THEN [layer |-> [l EXCEPT !.has_privileged_stat_override = 1],
        probes |-> <<XATTR_PRIVILEGED_OVERRIDE_STAT>>]
  ELSE IF Getxattr(rx[XATTR_OVERRIDE_STAT], TmpSize).ret >= 0
  THEN [layer |-> [l EXCEPT !.has_stat_override = 1],
        probes |-> <<XATTR_PRIVILEGED_OVERRIDE_STAT, XATTR_OVERRIDE_STAT>>]
  ELSE [layer |-> l, probes |-> <<XATTR_PRIVILEGED_OVERRIDE_STAT, XATTR_OVERRIDE_STAT>>]

\* Variant: the resolved path kept on a failed open.
FreePathKeep(l, hp) == [layer |-> l, heap |-> hp]

\* free (l->path); l->path = NULL;  (lines 252-253)
FreePath(l, hp) == [layer |-> [l EXCEPT !.path = NULL], heap |-> hp \ {l.path}]

direct_load_data_source(l, hp, tbl, rx, p, out) ==
  LET canon == realpath(p)
      l1 == [l EXCEPT !.path = canon]
  IN
  IF canon = NULL
  THEN [layer |-> l1, heap |-> hp, tbl |-> tbl, ret |-> -1, errno |-> "ENOENT",
        probes |-> <<>>]
  ELSE
    LET hp1 == hp \cup {canon}
        o == OpenRoot(tbl, p, out)
        l2 == [l1 EXCEPT !.fd = o.fd]
    IN
    IF o.fd < 0
    THEN LET f == FreePath(l2, hp1) IN
         [layer |-> f.layer, heap |-> f.heap, tbl |-> o.tbl, ret |-> l2.fd,
          errno |-> o.errno, probes |-> <<>>]
    ELSE LET pr == Probe(l2, rx) IN
         [layer |-> pr.layer, heap |-> hp1, tbl |-> o.tbl, ret |-> 0, errno |-> "",
          probes |-> pr.probes]

\* direct_cleanup: returns 0 and touches nothing.
direct_cleanup(l, hp, tbl) == [layer |-> l, heap |-> hp, tbl |-> tbl, ret |-> 0]

direct_must_be_remapped(l) ==
  l.has_privileged_stat_override = 0 /\ l.has_stat_override = 0

----------------------------------------------------------------------------
(* Extended attribute list/get *)

NameLen(n) == IF n = XATTR_OVERRIDE_STAT THEN 32 ELSE 36

RECURSIVE ListLen(_, _)
ListLen(e, ns) ==
  IF ns = {} THEN 0
  ELSE LET n == CHOOSE x \in ns : TRUE IN
       (IF XattrOf(e, n) # Absent THEN NameLen(n) + 1 ELSE 0) + ListLen(e, ns \ {n})

direct_listxattr(l, tbl, path) ==
  LET o == open_fd_or_get_path(l, tbl, path)
      done == cleanup_close(o.tbl, o.fd)
      base == [BaseLast("listxattr", path) EXCEPT !.tmpfd = o.fd]
  IN IF o.ret < 0
     THEN [res |-> [base EXCEPT !.ret = o.ret, !.errno = o.errno], tbl |-> done]
     ELSE [res |-> [base EXCEPT !.ret = ListLen(path, Names)], tbl |-> done]

direct_getxattr(l, tbl, path, name) ==
  LET o == open_fd_or_get_path(l, tbl, path)
      done == cleanup_close(o.tbl, o.fd)
      base == [BaseLast("getxattr", path) EXCEPT !.tmpfd = o.fd, !.xname = name]
  IN IF o.ret < 0
     THEN [res |-> [base EXCEPT !.ret = o.ret, !.errno = o.errno], tbl |-> done]
     ELSE LET g == Getxattr(XattrOf(path, name), BufSize) IN
          [res |-> [base EXCEPT !.ret = g.ret, !.errno = g.errno], tbl |-> done]

----------------------------------------------------------------------------
(* The interruptible calls and their retry loops *)

OpenFlags == {"O_RDONLY", "O_NOFOLLOW"}

\* safe_openat (utils.c) with the kernel's answer: interrupted, or decided by
\* the entry the path names.
safe_openat(tbl, path, flags, intr) ==
  LET e == Resolve(path, flags = "O_NOFOLLOW") IN
  IF intr THEN [ret |-> -1, errno |-> "EINTR", tbl |-> tbl]
  ELSE IF Kind(e) = "none" THEN [ret |-> -1, errno |-> "ENOENT", tbl |-> tbl]
  ELSE IF Kind(e) = "lnk" THEN [ret |-> -1, errno |-> "ELOOP", tbl |-> tbl]
  ELSE IF flags = "O_DIRECTORY" /\ Kind(e) # "dir"
  THEN [ret |-> -1, errno |-> "ENOTDIR", tbl |-> tbl]
  ELSE LET o == FdOpen(tbl, e, "core") IN [ret |-> o.fd, errno |-> "", tbl |-> o.tbl]

\* readlinkat(2): the target of l is the one-byte name "f".
readlinkat(path, intr) ==
  IF intr THEN [ret |-> -1, errno |-> "EINTR"]
  ELSE IF Kind(path) = "none" THEN [ret |-> -1, errno |-> "ENOENT"]
  ELSE IF Kind(path) # "lnk" THEN [ret |-> -1, errno |-> "EINVAL"]
  ELSE [ret |-> 1, errno |-> ""]

\* Variant: the expression evaluated once, whatever it yields.
TEMP_FAILURE_RETRY_once(r) == FALSE

\* TEMP_FAILURE_RETRY: the expression is evaluated again while it yields -1
\* with errno EINTR.
TEMP_FAILURE_RETRY(r) == r.ret = -1 /\ r.errno = "EINTR"

SetOwner(tbl, fd, owner) == [tbl EXCEPT ![fd] = [@ EXCEPT !.owner = owner]]

\* direct_opendir after the open loop has ended with result r.
direct_opendir(r, path, streamOk) ==
  LET cleanup_fd == r.ret
      base == [BaseLast("opendir", path) EXCEPT !.tmpfd = r.ret]
  IN
  IF cleanup_fd < 0
  THEN [res |-> [base EXCEPT !.ret = -1, !.errno = r.errno],
        tbl |-> cleanup_close(r.tbl, cleanup_fd)]
  ELSE IF ~streamOk
  THEN [res |-> [base EXCEPT !.ret = -1, !.errno = "ENOMEM"],
        tbl |-> cleanup_close(r.tbl, cleanup_fd)]
  ELSE [res |-> [base EXCEPT !.ret = cleanup_fd, !.fd = cleanup_fd],
        tbl |-> cleanup_close(SetOwner(r.tbl, cleanup_fd, "stream"), -1)]

----------------------------------------------------------------------------
(* Initial states *)

RootChoice == {Absent, T_ok}

\* The texts in a fixed order; f carries one under the unprivileged name and
\* the next one under the privileged name, so that over all contents every
\* text (and absence) is met under each name and the two names never agree.
TextRing == <<Absent, T_ok, T_type, T_bad, T_two, T_trail, T_empty>>

\* l carries a well-formed record under the unprivileged name and a malformed
\* one under the privileged name; d carries none and x does not exist.
FsOf(i) ==
  [en \in Entries \X Names |->
     IF en[1] = "f"
     THEN (IF en[2] = XATTR_OVERRIDE_STAT THEN TextRing[i]
                                          ELSE TextRing[(i % Len(TextRing)) + 1])
     ELSE IF en[1] = "l"
     THEN (IF en[2] = XATTR_OVERRIDE_STAT THEN T_ok ELSE T_bad)
     ELSE Absent]

FsChoices == {FsOf(i) : i \in 1..Len(TextRing)}

NoXattrs == [en \in Entries \X Names |-> Absent]

HarnessIdle ==
  /\ aSt = NoStat
  /\ aRec = NoRec
  /\ aFirst = NoStat
  /\ aCount = 0

ProgramStart ==
  /\ layer = FreshLayer
  /\ lstate = "fresh"
  /\ heap = {}
  /\ fds = <<>>
  /\ call = Idle
  /\ last = BaseLast("none", "")

\* Every storage content, no interruptions.
Init ==
  /\ haveStatx \in BOOLEAN
  /\ rootx \in [Names -> RootChoice]
  /\ fsx \in FsChoices
  /\ intrLeft = 0
  /\ ProgramStart
  /\ HarnessIdle

\* One storage content per root configuration, with interruptions.
InitRetry ==
  /\ haveStatx = TRUE
  /\ rootx \in [Names -> RootChoice]
  /\ fsx = FsOf(2)
  /\ intrLeft = MaxIntr
  /\ ProgramStart
  /\ HarnessIdle

progVars == <<haveStatx, rootx, fsx, layer, lstate, heap, fds, call, intrLeft, last>>
harnessVars == <<aSt, aRec, aFirst, aCount>>
envVars == <<haveStatx, rootx, fsx, aSt, aRec, aFirst, aCount>>

Ready == lstate = "loaded" /\ call = Idle

----------------------------------------------------------------------------
(* Operations *)

Load ==
  /\ lstate = "fresh" /\ call = Idle
  /\ \E p \in LoadPaths, out \in {"ok", "EACCES"} :
       LET r == direct_load_data_source(layer, heap, fds, rootx, p, out) IN
       /\ layer' = r.layer
       /\ heap' = r.heap
       /\ fds' = r.tbl
       /\ lstate' = IF r.ret = 0 THEN "loaded" ELSE "failed"
       /\ last' = [BaseLast("load", p) EXCEPT !.ret = r.ret, !.errno = r.errno,
                                              !.steps = r.probes]
  /\ UNCHANGED <<envVars, call, intrLeft>>

Cleanup ==
  /\ Ready
  /\ LET r == direct_cleanup(layer, heap, fds) IN
     /\ layer' = r.layer
     /\ heap' = r.heap
     /\ fds' = r.tbl
     /\ lstate' = "cleaned"
     /\ last' = [BaseLast("cleanup", "") EXCEPT !.ret = r.ret]
  /\ UNCHANGED <<envVars, call, intrLeft>>

MustBeRemapped ==
  /\ Ready
  /\ last' = [BaseLast("must_be_remapped", "") EXCEPT
                !.ret = IF direct_must_be_remapped(layer) THEN 1 ELSE 0]
  /\ UNCHANGED <<envVars, layer, lstate, heap, fds, call, intrLeft>>

Statat ==
  /\ Ready
  /\ \E path \in Entries, nofollow \in BOOLEAN, out \in QueryOutcomes :
       LET r == direct_statat(haveStatx, layer, fds, path, nofollow, out[1], out[2]) IN
       /\ last' = r.res
       /\ fds' = r.tbl
  /\ UNCHANGED <<envVars, layer, lstate, heap, call, intrLeft>>

Fstat ==
  /\ Ready
  /\ \E fd \in {f \in OpenFds : fds[f].owner = "caller"}, out \in QueryOutcomes :
       LET r == direct_fstat(haveStatx, layer, fds, fd, fds[fd].entry, out[1], out[2]) IN
       /\ last' = r.res
       /\ fds' = r.tbl
  /\ UNCHANGED <<envVars, layer, lstate, heap, call, intrLeft>>

Listxattr ==
  /\ Ready
  /\ \E path \in Entries :
       LET r == direct_listxattr(layer, fds, path) IN
       /\ last' = r.res
       /\ fds' = r.tbl
  /\ UNCHANGED <<envVars, layer, lstate, heap, call, intrLeft>>

Getxattr_ ==
  /\ Ready
  /\ \E path \in Entries, name \in Names :
       LET r == direct_getxattr(layer, fds, path, name) IN
       /\ last' = r.res
       /\ fds' = r.tbl
  /\ UNCHANGED <<envVars, layer, lstate, heap, call, intrLeft>>

\* The caller enters one of the three calls that loop on EINTR.
Begin ==
  /\ Ready
  /\ \E op \in {"opendir", "openat", "readlinkat"}, path \in Entries, flags \in OpenFlags :
       /\ op \in {"opendir", "openat"} => Cardinality(Held) < MaxFds
       /\ op # "openat" => flags = "O_RDONLY"
       /\ call' = [op |-> op, path |-> path,
                   flags |-> IF op = "opendir" THEN "O_DIRECTORY" ELSE flags,
                   tries |-> 0]
       /\ last' = BaseLast("pending", path)
  /\ UNCHANGED <<envVars, layer, lstate, heap, fds, intrLeft>>

\* One evaluation of safe_openat inside direct_opendir, then the rest of it.
OpendirStep ==
  /\ call.op = "opendir"
  /\ \E intr \in BOOLEAN, streamOk \in BOOLEAN :
       /\ intr => intrLeft > 0
       /\ LET r == safe_openat(fds, call.path, call.flags, intr) IN
          /\ intrLeft' = IF intr THEN intrLeft - 1 ELSE intrLeft
          /\ IF TEMP_FAILURE_RETRY(r)
             THEN call' = [call EXCEPT !.tries = @ + 1] /\ UNCHANGED <<fds, last>>
             ELSE LET f == direct_opendir(r, call.path, streamOk) IN
                  /\ call' = Idle
                  /\ fds' = f.tbl
                  /\ last' = [f.res EXCEPT !.tries = call.tries]
  /\ UNCHANGED <<envVars, layer, lstate, heap>>

\* One evaluation of safe_openat inside direct_openat.
OpenatStep ==
  /\ call.op = "openat"
  /\ \E intr \in BOOLEAN :
       /\ intr => intrLeft > 0
       /\ LET r == safe_openat(fds, call.path, call.flags, intr) IN
          /\ intrLeft' = IF intr THEN intrLeft - 1 ELSE intrLeft
          /\ IF TEMP_FAILURE_RETRY(r)
             THEN call' = [call EXCEPT !.tries = @ + 1] /\ UNCHANGED <<fds, last>>
             ELSE /\ call' = Idle
                  /\ fds' = IF r.ret >= 0 THEN SetOwner(r.tbl, r.ret, "caller") ELSE r.tbl
                  /\ last' = [BaseLast("openat", call.path) EXCEPT
                                !.ret = r.ret, !.errno = r.errno, !.fd = r.ret,
                                !.tries = call.tries]
  /\ UNCHANGED <<envVars, layer, lstate, heap>>

\* One evaluation of readlinkat inside direct_readlinkat.
ReadlinkatStep ==
  /\ call.op = "readlinkat"
  /\ \E intr \in BOOLEAN :
       /\ intr => intrLeft > 0
       /\ LET r == readlinkat(call.path, intr) IN
          /\ intrLeft' = IF intr THEN intrLeft - 1 ELSE intrLeft
          /\ IF TEMP_FAILURE_RETRY(r)
             THEN call' = [call EXCEPT !.tries = @ + 1] /\ UNCHANGED last
             ELSE /\ call' = Idle
                  /\ last' = [BaseLast("readlinkat", call.path) EXCEPT
                                !.ret = r.ret, !.errno = r.errno, !.tries = call.tries]
  /\ UNCHANGED <<envVars, layer, lstate, heap, fds>>

\* direct_closedir: closedir releases the stream and its descriptor.
Closedir ==
  /\ Ready
  /\ \E fd \in {f \in OpenFds : fds[f].owner = "stream"} :
       /\ fds' = FdClose(fds, fd)
       /\ last' = [BaseLast("closedir", "") EXCEPT !.fd = fd]
  /\ UNCHANGED <<envVars, layer, lstate, heap, call, intrLeft>>

\* The caller closes a descriptor direct_openat returned to it.
CallerClose ==
  /\ Ready
  /\ \E fd \in {f \in OpenFds : fds[f].owner = "caller"} :
       /\ fds' = FdClose(fds, fd)
       /\ last' = [BaseLast("close", "") EXCEPT !.fd = fd]
  /\ UNCHANGED <<envVars, layer, lstate, heap, call, intrLeft>>

Next ==
  \/ Load
  \/ Cleanup
  \/ MustBeRemapped
  \/ Statat
  \/ Fstat
  \/ Listxattr
  \/ Getxattr_
  \/ Begin
  \/ OpendirStep
  \/ OpenatStep
  \/ ReadlinkatStep
  \/ Closedir
  \/ CallerClose

Spec == Init /\ [][Next]_vars

RetrySteps == OpendirStep \/ OpenatStep \/ ReadlinkatStep

SpecRetry == InitRetry /\ [][Next]_vars /\ WF_vars(RetrySteps)

----------------------------------------------------------------------------
(* Harness for the apply step: one record applied repeatedly to one result *)

AModes ==
  {S_IFDIR + Octal(<<7, 5, 5>>), S_IFREG + Octal(<<6, 4, 4>>), S_IFLNK + Octal(<<7, 7, 7>>),
   S_IFREG + Octal(<<4, 7, 5, 5>>)}
ASts == {[st_mode |-> m, st_uid |-> 1000, st_gid |-> 100, st_ino |-> 12] : m \in AModes}
ARecs ==
  {[count |-> 3, uid |-> u, gid |-> g, mode |-> m] :
     u \in {0, 10, 65534}, g \in {0, 20},
     m \in {0, Octal(<<7, 5, 5>>), Octal(<<7, 7, 7, 7>>), Octal(<<4, 0, 6, 4, 4>>), S_IFMT,
            Octal(<<1, 7, 7, 7, 7, 7>>)}}

InitApply ==
  /\ haveStatx = TRUE
  /\ rootx = [n \in Names |-> Absent]
  /\ fsx = NoXattrs
  /\ intrLeft = 0
  /\ ProgramStart
  /\ aSt \in ASts
  /\ aRec \in ARecs
  /\ aFirst = NoStat
  /\ aCount = 0

ApplyStep ==
  /\ aCount < MaxApply
  /\ aSt' = ApplyOverride(aRec, aSt)
  /\ aFirst' = IF aCount = 0 THEN aSt' ELSE aFirst
  /\ aCount' = aCount + 1
  /\ UNCHANGED <<progVars, aRec>>

NextApply == ApplyStep

SpecApply == InitApply /\ [][NextApply]_vars

----------------------------------------------------------------------------
(* Properties *)

StatOps == {"statat", "fstat"}
PrivOnRoot == rootx[XATTR_PRIVILEGED_OVERRIDE_STAT] # Absent
UserOnRoot == rootx[XATTR_OVERRIDE_STAT] # Absent

\* The text override_mode read in the last stat call.
LastText == XattrOf(last.xentry, last.xname)

\* C1: on any loaded layer, when the queried entry exists and the override
\* attribute looked up on it is absent, the stat call succeeds and returns
\* the raw result of the metadata query unchanged.
C1_MissingOverrideIsNoError ==
  (/\ last.op \in StatOps
   /\ last.looked
   /\ LastText = Absent)
  => (last.ret = 0 /\ last.st = last.raw)

\* C2: whenever an override record was parsed and applied, the returned
\* result keeps the file-type bits of the physical entry, its other mode bits
\* are the record's mode, and its owner and group are the record's.
C2_OverrideKeepsFileType ==
  (last.op \in StatOps /\ last.applied)
  => (/\ BitAnd(last.st.st_mode, S_IFMT) = BitAnd(last.raw.st_mode, S_IFMT)
      /\ last.st.st_mode - BitAnd(last.st.st_mode, S_IFMT) = last.rec.mode
      /\ last.st.st_uid = last.rec.uid
      /\ last.st.st_gid = last.rec.gid)

RECURSIVE AllDigits(_, _)
AllDigits(s, base) ==
  s = <<>> \/ (IsDigit(Head(s), base) /\ AllDigits(Tail(s), base))

\* The text is exactly decimal ':' decimal ':' octal, each field non-empty.
IsExactRecord(t) ==
  LET colons == {i \in 1..Len(t) : t[i] = ":"} IN
  /\ Cardinality(colons) = 2
  /\ LET c1 == CHOOSE i \in colons : \A j \in colons : i <= j
         c2 == CHOOSE i \in colons : \A j \in colons : j <= i
         f1 == SubSeq(t, 1, c1 - 1)
         f2 == SubSeq(t, c1 + 1, c2 - 1)
         f3 == SubSeq(t, c2 + 1, Len(t))
     IN /\ f1 # <<>> /\ AllDigits(f1, 10)
        /\ f2 # <<>> /\ AllDigits(f2, 10)
        /\ f3 # <<>> /\ AllDigits(f3, 8)

\* C3: when the override attribute is present and its text is not exactly
\* three fields decimal:decimal:octal, the stat call fails with EINVAL and the
\* stat result keeps the physical owner, group and mode.
C3_MalformedOverrideFails ==
  (/\ last.op \in StatOps
   /\ last.looked
   /\ LastText # Absent
   /\ ~IsExactRecord(LastText))
  => (last.ret = -1 /\ last.errno = "EINVAL" /\ last.st = last.raw)

PlainQuery == IF last.op = "fstat" THEN "fstat" ELSE "fstatat"
OverrideRuns == Cardinality({i \in 1..Len(last.steps) : last.steps[i] = "override_mode"})

\* C5: in a build with the rich query, ENOSYS from it makes the conventional
\* query run and is never what the caller gets; any other failure of it is
\* returned as it is, with no fallback and no override step; and whenever a
\* query succeeded the override step ran exactly once, as the last step.
C5_FallbackOnUnsupported ==
  (last.op \in StatOps /\ haveStatx)
  => (/\ last.steps[1] = "statx"
      /\ last.richErrno = "ENOSYS"
           => (/\ Len(last.steps) >= 2 /\ last.steps[2] = PlainQuery
               /\ last.errno # "ENOSYS")
      /\ last.richErrno \notin {"", "ENOSYS"}
           => (/\ last.ret = -1 /\ last.errno = last.richErrno
               /\ last.steps = <<"statx">>)
      /\ last.richErrno = "" => PlainQuery \notin {last.steps[i] : i \in 1..Len(last.steps)}
      /\ last.raw # NoStat
           => (OverrideRuns = 1 /\ last.steps[Len(last.steps)] = "override_mode")
      /\ last.raw = NoStat => OverrideRuns = 0)

C5_Witness ==
  /\ last.op = "statat" /\ haveStatx
  /\ last.richErrno = "ENOSYS"
  /\ last.steps = <<"statx", "fstatat", "override_mode">>
  /\ last.ret = 0 /\ last.applied

\* C6: a load of a missing path fails with the resolution error, a load of a
\* regular file with ENOTDIR, and after any failed load the layer holds no
\* open descriptor, no path string (none is left allocated) and no flag.
C6_FailedLoadHoldsNothing ==
  /\ (last.op = "load" /\ last.path = "/nope")
       => (lstate = "failed" /\ last.ret = -1 /\ last.errno = "ENOENT")
  /\ (last.op = "load" /\ last.path = "/file")
       => (lstate = "failed" /\ last.ret = -1 /\ last.errno = "ENOTDIR")
  /\ lstate = "failed"
       => (/\ last.ret < 0
           /\ layer.fd \notin OpenFds
           /\ OpenFds = {}
           /\ layer.path = NULL
           /\ heap = {}
           /\ layer.has_stat_override = 0
           /\ layer.has_privileged_stat_override = 0)

C6_Witness ==
  /\ lstate = "failed" /\ last.op = "load" /\ last.path = "/file"
  /\ last.errno = "ENOTDIR" /\ layer.fd = -1

\* C7: once cleanup has returned, the layer holds no open descriptor and no
\* path string.
C7_CleanupReleases ==
  lstate = "cleaned"
  => (layer.fd \notin OpenFds /\ layer.path = NULL /\ heap = {})

\* C8: applying the same override record a second time leaves the stat
\* result as the first application made it.
C8_ApplyIdempotent == aCount >= 2 => aSt = aFirst

C8_Witness ==
  /\ aCount = 2
  /\ BitAnd(aRec.mode, S_IFMT) # 0
  /\ BitAnd(aRec.mode, S_IFMT) # BitAnd(aSt.st_mode, S_IFMT)

\* C9: listxattr, getxattr, stat-by-path, stat-by-descriptor and a failed
\* directory open leave the descriptor table as it was; a successful
\* directory open adds exactly the stream's descriptor; stat-by-descriptor
\* leaves the caller's descriptor open; a stream's descriptor goes away only
\* by directory close.
C9_DescriptorsReleased ==
  [][/\ last'.op \in {"listxattr", "getxattr", "statat", "fstat"} => fds' = fds
     /\ (last'.op = "opendir" /\ last'.ret < 0) => fds' = fds
     /\ (last'.op = "opendir" /\ last'.ret >= 0)
          => (/\ last'.ret \notin OpenFds
              /\ OpenFds' = OpenFds \cup {last'.ret}
              /\ fds'[last'.ret].owner = "stream")
     /\ last'.op = "fstat" => (last'.fd \in OpenFds' /\ fds'[last'.fd].owner = "caller")
     /\ \A f \in OpenFds :
          (fds[f].owner = "stream" /\ f \notin OpenFds')
            => (last'.op = "closedir" /\ last'.fd = f)]_vars

C9_Witness ==
  /\ last.op = "opendir" /\ last.ret = -1 /\ last.errno = "ENOMEM"
  /\ last.tmpfd >= 0 /\ last.tmpfd \notin OpenFds

\* C10: opendir, openat and readlinkat never return EINTR; an interrupted
\* evaluation is followed by another one of the same call; and, since the
\* interruptions stop, every such call returns.
C10_InterruptionRetried ==
  /\ [](last.op \in {"opendir", "openat", "readlinkat"} => last.errno # "EINTR")
  /\ [][intrLeft' < intrLeft => (call.op # "idle" /\ call'.op = call.op
                                 /\ call'.path = call.path)]_vars
  /\ (call.op # "idle") ~> (call.op = "idle")

C10_Witness ==
  /\ last.op = "opendir" /\ last.tries > 0 /\ last.ret >= 0

====
